---- MODULE Spec2Model ----
(***************************************************************************)
(* Model of the image-utils command line tools:                            *)
(*   create_tiles.py    - random rescale + grid tiling of images           *)
(*   create_pairings.py - scale / blur / noise / re-encode degradation     *)
(* Pixel values are not modelled; an image is its size and colour mode.    *)
(* Scale factors are the rationals num/ScaleDen.  A directory is a tuple   *)
(* of path components, a file name a tuple of "_"-joined parts and a       *)
(* suffix.  Input trees hold directories directly under the root only.     *)
(***************************************************************************)
EXTENDS Integers, Sequences, FiniteSets, TLC

VARIABLES
    tool,          \* "tiles" | "pairings": which program runs
    input_path,    \* [kind, file, dir]: the positional input_path argument
    output_dir,    \* the positional output_dir argument
    tree,          \* the image files on disk when the run starts
    disk,          \* the image files on disk now
    dirs,          \* the directories on disk
    cfg,           \* the remaining command line arguments
    pending,       \* what the directory walk has still to yield
    pc,            \* position of the run
    cur,           \* the file being processed (kept until the next one starts)
    visit,         \* number of image files opened so far
    img,           \* the in-memory image: [width, height, mode]
    retries,       \* create_tiles: local `retries`
    valid_scale,   \* create_tiles: local `valid_scale`
    scaled_width,  \* locals `scaled_width`, `scaled_height`
    scaled_height,
    draws,         \* the scale factors drawn for `cur`, oldest first
    i,             \* create_tiles: grid row
    j,             \* create_tiles: grid column
    tile_count,    \* create_tiles: local `tile_count`
    clock,         \* wall clock, in whole seconds
    saved,         \* every save() call of the run, in order
    reports        \* the error lines printed

vars == <<tool, input_path, output_dir, tree, disk, dirs, cfg, pending, pc,
          cur, visit, img, retries, valid_scale, scaled_width, scaled_height,
          draws, i, j, tile_count, clock, saved, reports>>

\* ------------------------------------------------------------------ bounds
MaxDim == 2        \* source images are 1..MaxDim pixels wide and high
MaxOut == 2        \* output tile sizes range up to MaxOut
MaxScaleNum == 4   \* scale factors are 1/ScaleDen .. MaxScaleNum/ScaleDen
ScaleDen == 2
MaxRetries == 2    \* max_retries ranges over 0..MaxRetries
MaxClock == 1      \* the clock runs from 0 to MaxClock

\* ----------------------------------------------------------------- helpers
NoDir == <<>>
NoFile == [dir |-> NoDir, stem |-> <<>>, suffix |-> <<>>, width |-> 0,
           height |-> 0, mode |-> ""]
NoImage == [width |-> 0, height |-> 0, mode |-> ""]

Min(a, b) == IF a <= b THEN a ELSE b
Max(a, b) == IF a >= b THEN a ELSE b

\* Python's int(): truncation toward zero of the rational n/d, d > 0.
IntTrunc(n, d) == IF n >= 0 THEN n \div d ELSE -((-n) \div d)

\* Python's a // b (floor division), b # 0.
FloorDiv(a, b) == IF b > 0 THEN a \div b ELSE (-a) \div (-b)

\* int(img.width * scale_factor) with scale_factor = num/ScaleDen.
ScaledDim(dim, num) == IntTrunc(dim * num, ScaleDen)

\* All orders in which a directory listing may yield the entries of S.
RECURSIVE Orders(_)
Orders(S) ==
    IF S = {} THEN {<<>>}
    ELSE UNION {{<<f>> \o rest : rest \in Orders(S \ {f})} : f \in S}

\* A suffix is the tuple of its characters, <<>> when the name has none.
image_extensions ==
    {<<".", "j", "p", "g">>, <<".", "j", "p", "e", "g">>, <<".", "p", "n", "g">>,
     <<".", "b", "m", "p">>, <<".", "t", "i", "f", "f">>}

UpperCase ==
    <<"A", "B", "C", "D", "E", "F", "G", "H", "I", "J", "K", "L", "M",
      "N", "O", "P", "Q", "R", "S", "T", "U", "V", "W", "X", "Y", "Z">>
LowerCase ==
    <<"a", "b", "c", "d", "e", "f", "g", "h", "i", "j", "k", "l", "m",
      "n", "o", "p", "q", "r", "s", "t", "u", "v", "w", "x", "y", "z">>

\* str.lower() of one ASCII character.
LowerChar(c) ==
    IF \E k \in 1 .. Len(UpperCase) : UpperCase[k] = c
    THEN LowerCase[CHOOSE k \in 1 .. Len(UpperCase) : UpperCase[k] = c]
    ELSE c

\* str.lower(): every character of the suffix lower-cased.
Lower(suffix) == [k \in 1 .. Len(suffix) |-> LowerChar(suffix[k])]

\* suffix.lower() in image_extensions.
HasImageSuffix(suffix) == Lower(suffix) \in image_extensions

\* A directory: the tuple of its components, each a name and a suffix.
Comp(name, suffix) == [name |-> name, suffix |-> suffix]
DirSuffix(d) == IF d = NoDir THEN <<>> ELSE d[Len(d)].suffix
ChildDir(d, parent) == Len(d) = Len(parent) + 1 /\ SubSeq(d, 1, Len(parent)) = parent

SamePath(f, g) == f.dir = g.dir /\ f.stem = g.stem /\ f.suffix = g.suffix

\* What is at a file's path now.
OnDisk(file) == CHOOSE g \in disk : SamePath(g, file)

\* save(): the file replaces whatever was at its path.
Write(files, file) == {g \in files : ~SamePath(g, file)} \cup {file}

FileItem(f) == [kind |-> "file", file |-> f, dir |-> NoDir]
CallItem(d) == [kind |-> "call", file |-> NoFile, dir |-> d]
ListItem(d) == [kind |-> "list", file |-> NoFile, dir |-> d]

\* The paths rglob("*") yields for directory d that pass the suffix test:
\* its image files, and its sub-directories named like an image, on which
\* process_image is called in turn.
Yielded(d) ==
    {FileItem(f) : f \in {f \in disk : f.dir = d /\ HasImageSuffix(f.suffix)}}
    \cup
    {CallItem(s) : s \in {s \in dirs : ChildDir(s, d) /\ HasImageSuffix(DirSuffix(s))}}

\* rglob("*") on a directory: the directory itself is listed first, then
\* each of its sub-directories when the walk reaches it.
WalkOf(d, known) ==
    {<<ListItem(d)>> \o order :
        order \in Orders({ListItem(s) : s \in {s \in known : ChildDir(s, d)}})}

\* ------------------------------------------------------- create_tiles.py
\* Line 32: the pre-filter on the original size.
PreFilterNever(file, c) == FALSE
PreFilterBoth(file, c) ==
    file.width < c.output_width /\ file.height < c.output_height
PreFilter(file, c) ==
    file.width < c.output_width \/ file.height < c.output_height

\* Line 38: random.uniform(a, b) is a + (b - a) * random(): a factor between
\* the two bounds, whichever is the larger.
Uniform(a, b) == Min(a, b) .. Max(a, b)

\* Line 41: the acceptance test of a draw.
FeasibleEither(w, h, c) == w >= c.output_width \/ h >= c.output_height
Feasible(w, h, c) == w >= c.output_width /\ h >= c.output_height

\* Line 37: the loop condition of the scale search.
LoopOffByOne(valid, n, c) == ~valid /\ n <= c.max_retries
LoopContinues(valid, n, c) == ~valid /\ n < c.max_retries

\* Lines 54-55.
TilesAcrossExclusive(w, c) == FloorDiv(w - 1, c.output_width)
TilesAcross(w, c) == FloorDiv(w, c.output_width)
TilesDown(h, c) == FloorDiv(h, c.output_height)

\* Line 57: grid or fallback.
GridFitsTwo(w, h, c) == TilesAcross(w, c) > 1 /\ TilesDown(h, c) > 1
GridFits(w, h, c) == TilesAcross(w, c) > 0 /\ TilesDown(h, c) > 0

\* Lines 61-65: the crop box of grid cell (row, col).
GridBoxSwapped(row, col, c) ==
    [left  |-> row * c.output_width,
     top   |-> col * c.output_height,
     right |-> row * c.output_width + c.output_width,
     lower |-> col * c.output_height + c.output_height]
GridBox(row, col, c) ==
    [left  |-> col * c.output_width,
     top   |-> row * c.output_height,
     right |-> col * c.output_width + c.output_width,
     lower |-> row * c.output_height + c.output_height]

\* Lines 76-78: the crop box of the fallback crop.
FallbackBox(left, top, c) ==
    [left  |-> left,
     top   |-> top,
     right |-> left + c.output_width,
     lower |-> top + c.output_height]

\* A box whose right < left or lower < upper: Image.crop raises ValueError on
\* it in the Pillow releases that check the box, and gives an image without
\* the inverted dimension in those that do not.
BoxInverted(b) == b.right < b.left \/ b.lower < b.top

\* Line 67: f"{stem}_{timestamp}_{tile_count}{suffix}".
GridFilename(file, timestamp, count) ==
    [parts |-> file.stem \o <<timestamp, count>>, suffix |-> file.suffix]

\* Line 80: f"{stem}_{timestamp}{suffix}".
FallbackFilename(file, timestamp) ==
    [parts |-> file.stem \o <<timestamp>>, suffix |-> file.suffix]

\* The file a save() of a crop leaves on disk.
Written(dir, name, w, h, mode) ==
    [dir |-> dir, stem |-> name.parts, suffix |-> name.suffix, width |-> w,
     height |-> h, mode |-> mode]

\* Line 82: a save without format= takes the format from the lower-cased
\* suffix of the path; the JPEG encoder has no RGBA mode and raises OSError.
Writable(mode, suffix) ==
    ~(mode = "RGBA"
      /\ Lower(suffix) \in {<<".", "j", "p", "g">>, <<".", "j", "p", "e", "g">>})

\* int(time()): the clock may have advanced since it was last read.
TimeNow == clock .. Min(clock + 1, MaxClock)

\* Lines 20-30, 85-86, 97-100: mkdir output_dir, then dispatch on input_path.
TilesDispatch ==
    /\ tool = "tiles"
    /\ pc = "dispatch"
    /\ dirs' = dirs \cup {output_dir}
    /\ \/ /\ input_path.kind = "missing"
          /\ reports' = Append(reports,
                [kind |-> "not_found", file |-> NoFile, visit |-> 0])
          /\ pc' = "done"
          /\ UNCHANGED pending
       \/ /\ input_path.kind = "file"
          /\ HasImageSuffix(input_path.file.suffix)
          /\ pending' = <<FileItem(input_path.file)>>
          /\ pc' = "next"
          /\ UNCHANGED reports
       \/ /\ input_path.kind = "dir"
          /\ \E walk \in WalkOf(input_path.dir, dirs \cup {output_dir}) :
                pending' = walk
          /\ pc' = "next"
          /\ UNCHANGED reports
       \/ /\ input_path.kind = "file"
          /\ ~HasImageSuffix(input_path.file.suffix)
          /\ reports' = Append(reports,
                [kind |-> "unsupported", file |-> input_path.file, visit |-> 0])
          /\ pc' = "done"
          /\ UNCHANGED pending
    /\ UNCHANGED <<tool, input_path, output_dir, tree, disk, cfg, cur, visit,
                   img, retries, valid_scale, scaled_width, scaled_height,
                   draws, i, j, tile_count, clock, saved>>

\* Lines 86-96: the walk reaches a directory and lists it as it is now; or
\* it has yielded a directory named like an image and process_image walks it.
TilesWalk ==
    /\ tool = "tiles"
    /\ pc = "next"
    /\ pending # <<>>
    /\ Head(pending).kind \in {"list", "call"}
    /\ \E order \in Orders(Yielded(Head(pending).dir)) :
          pending' = order \o Tail(pending)
    /\ UNCHANGED <<tool, input_path, output_dir, tree, disk, dirs, cfg, pc,
                   cur, visit, img, retries, valid_scale, scaled_width,
                   scaled_height, draws, i, j, tile_count, clock, saved,
                   reports>>

\* Lines 30-36: open the next file, pre-filter, set up the search.
TilesStart ==
    /\ tool = "tiles"
    /\ pc = "next"
    /\ pending # <<>>
    /\ Head(pending).kind = "file"
    /\ LET file == OnDisk(Head(pending).file) IN
        /\ cur' = file
        /\ img' = [width |-> file.width, height |-> file.height, mode |-> file.mode]
        /\ pending' = Tail(pending)
        /\ pc' = IF PreFilter(file, cfg) THEN "next" ELSE "search"
    /\ visit' = visit + 1
    /\ retries' = 0
    /\ valid_scale' = FALSE
    /\ draws' = <<>>
    /\ UNCHANGED <<tool, input_path, output_dir, tree, disk, dirs, cfg,
                   scaled_width, scaled_height, i, j, tile_count, clock,
                   saved, reports>>

\* Lines 37-43: one iteration of the scale search.
TilesDraw ==
    /\ tool = "tiles"
    /\ pc = "search"
    /\ LoopContinues(valid_scale, retries, cfg)
    /\ \E num \in Uniform(cfg.scale_min, cfg.scale_max) :
        /\ scaled_width' = ScaledDim(img.width, num)
        /\ scaled_height' = ScaledDim(img.height, num)
        /\ valid_scale' = Feasible(ScaledDim(img.width, num),
                                   ScaledDim(img.height, num), cfg)
        /\ draws' = Append(draws, num)
    /\ retries' = retries + 1
    /\ UNCHANGED <<tool, input_path, output_dir, tree, disk, dirs, cfg,
                   pending, pc, cur, visit, img, i, j, tile_count, clock,
                   saved, reports>>

\* Lines 45-49: the retry budget is spent.
TilesSearchFail ==
    /\ tool = "tiles"
    /\ pc = "search"
    /\ ~LoopContinues(valid_scale, retries, cfg)
    /\ ~valid_scale
    /\ reports' = Append(reports,
          [kind |-> "no_valid_scale", file |-> cur, visit |-> visit])
    /\ pc' = "next"
    /\ UNCHANGED <<tool, input_path, output_dir, tree, disk, dirs, cfg,
                   pending, cur, visit, img, retries, valid_scale,
                   scaled_width, scaled_height, draws, i, j, tile_count,
                   clock, saved>>

\* Lines 51-58, 72: resize to the accepted size and choose grid or fallback.
\* Image.resize raises ValueError on a size below 1; `//` raises
\* ZeroDivisionError on a tile size of 0.
TilesResize ==
    /\ tool = "tiles"
    /\ pc = "search"
    /\ ~LoopContinues(valid_scale, retries, cfg)
    /\ valid_scale
    /\ IF scaled_width < 1 \/ scaled_height < 1
       THEN /\ pc' = "crashed"
            /\ UNCHANGED img
       ELSE /\ img' = [img EXCEPT !.width = scaled_width, !.height = scaled_height]
            /\ pc' = IF cfg.output_width = 0 \/ cfg.output_height = 0
                       THEN "crashed"
                     ELSE IF GridFits(scaled_width, scaled_height, cfg)
                       THEN "grid"
                     ELSE "fallback"
    /\ i' = 0
    /\ j' = 0
    /\ tile_count' = 0
    /\ UNCHANGED <<tool, input_path, output_dir, tree, disk, dirs, cfg,
                   pending, cur, visit, retries, valid_scale, scaled_width,
                   scaled_height, draws, clock, saved, reports>>

\* Lines 59-71: crop and save one grid tile, advance the two loops. The tile
\* is encoded as PNG whatever the suffix of its name, and PNG holds every mode.
TilesGridEmit ==
    /\ tool = "tiles"
    /\ pc = "grid"
    /\ LET box == GridBox(i, j, cfg)
           lastCol == j + 1 >= TilesAcross(scaled_width, cfg)
           lastRow == i + 1 >= TilesDown(scaled_height, cfg)
       IN
        /\ \E timestamp \in TimeNow :
            /\ clock' = timestamp
            /\ saved' = Append(saved,
                   [dir   |-> output_dir,
                    name  |-> GridFilename(cur, timestamp, tile_count),
                    box   |-> box,
                    width |-> img.width, height |-> img.height,
                    kind  |-> "grid",
                    src   |-> cur,
                    visit |-> visit])
            /\ disk' = Write(disk,
                   Written(output_dir, GridFilename(cur, timestamp, tile_count),
                           cfg.output_width, cfg.output_height, img.mode))
        /\ tile_count' = tile_count + 1
        /\ j' = IF lastCol THEN 0 ELSE j + 1
        /\ i' = IF lastCol THEN i + 1 ELSE i
        /\ pc' = IF lastCol /\ lastRow THEN "next" ELSE "grid"
    /\ UNCHANGED <<tool, input_path, output_dir, tree, dirs, cfg, pending,
                   cur, visit, img, retries, valid_scale, scaled_width,
                   scaled_height, draws, reports>>

\* Lines 73-83: the single random crop. random.randint raises ValueError on
\* an empty range, and the save OSError when the format of the suffix cannot
\* hold the image's mode. On an inverted box the run ends with the exception
\* of the crop, or goes on with a crop that has lost the inverted dimension.
TilesFallbackEmit ==
    /\ tool = "tiles"
    /\ pc = "fallback"
    /\ IF scaled_width - cfg.output_width < 0 \/ scaled_height - cfg.output_height < 0
       THEN /\ pc' = "crashed"
            /\ UNCHANGED <<clock, saved, disk>>
       ELSE \E left \in 0 .. (scaled_width - cfg.output_width),
               top \in 0 .. (scaled_height - cfg.output_height) :
              \/ /\ BoxInverted(FallbackBox(left, top, cfg))
                    \/ ~Writable(img.mode, cur.suffix)
                 /\ pc' = "crashed"
                 /\ UNCHANGED <<clock, saved, disk>>
              \/ /\ Writable(img.mode, cur.suffix)
                 /\ \E timestamp \in TimeNow :
                     /\ clock' = timestamp
                     /\ saved' = Append(saved,
                            [dir   |-> output_dir,
                             name  |-> FallbackFilename(cur, timestamp),
                             box   |-> FallbackBox(left, top, cfg),
                             width |-> img.width, height |-> img.height,
                             kind  |-> "fallback",
                             src   |-> cur,
                             visit |-> visit])
                     /\ disk' = Write(disk,
                            Written(output_dir, FallbackFilename(cur, timestamp),
                                    Max(cfg.output_width, 0),
                                    Max(cfg.output_height, 0), img.mode))
                 /\ pc' = "next"
    /\ UNCHANGED <<tool, input_path, output_dir, tree, dirs, cfg, pending,
                   cur, visit, img, retries, valid_scale, scaled_width,
                   scaled_height, draws, i, j, tile_count, reports>>

\* The walk is over: process_image returns to main.
TilesFinish ==
    /\ tool = "tiles"
    /\ pc = "next"
    /\ pending = <<>>
    /\ pc' = "done"
    /\ UNCHANGED <<tool, input_path, output_dir, tree, disk, dirs, cfg,
                   pending, cur, visit, img, retries, valid_scale,
                   scaled_width, scaled_height, draws, i, j, tile_count,
                   clock, saved, reports>>

\* ----------------------------------------------------- create_pairings.py
SCALING_ALGORITHMS == {"down_up", "linear", "cubic_mitchell", "lanczos", "gauss", "box"}
BLUR_ALGORITHMS == {"average", "gaussian", "anisotropic"}

\* Python's round() of the rational n/d, n >= 0, d > 0 (ties go to the even integer).
RoundHalfEven(n, d) ==
    LET q == n \div d
        r == n % d
    IN  IF 2 * r < d THEN q
        ELSE IF 2 * r > d THEN q + 1
        ELSE IF q % 2 = 0 THEN q ELSE q + 1

\* Lines 74-75: int(img.width * scale) with scale = num/ScaleDen.
PairScaledDimRounded(dim, num) == RoundHalfEven(dim * num, ScaleDen)
PairScaledDim(dim, num) == IntTrunc(dim * num, ScaleDen)

\* Lines 102, 108: f"{stem}.jpg" or f"{stem}.png".
PairFilename(file, jpeg) ==
    [parts  |-> file.stem,
     suffix |-> IF jpeg THEN <<".", "j", "p", "g">> ELSE <<".", "p", "n", "g">>]

\* The name a file has on disk.
DiskName(file) == [parts |-> file.stem, suffix |-> file.suffix]

\* Lines 55-65, 112-113, 127-130: mkdir output_dir, then dispatch on input_path.
PairDispatch ==
    /\ tool = "pairings"
    /\ pc = "dispatch"
    /\ dirs' = dirs \cup {output_dir}
    /\ \/ /\ input_path.kind = "missing"
          /\ reports' = Append(reports,
                [kind |-> "not_found", file |-> NoFile, visit |-> 0])
          /\ pc' = "done"
          /\ UNCHANGED pending
       \/ /\ input_path.kind = "file"
          /\ HasImageSuffix(input_path.file.suffix)
          /\ pending' = <<FileItem(input_path.file)>>
          /\ pc' = "next"
          /\ UNCHANGED reports
       \/ /\ input_path.kind = "dir"
          /\ \E walk \in WalkOf(input_path.dir, dirs \cup {output_dir}) :
                pending' = walk
          /\ pc' = "next"
          /\ UNCHANGED reports
       \/ /\ input_path.kind = "file"
          /\ ~HasImageSuffix(input_path.file.suffix)
          /\ reports' = Append(reports,
                [kind |-> "unsupported", file |-> input_path.file, visit |-> 0])
          /\ pc' = "done"
          /\ UNCHANGED pending
    /\ UNCHANGED <<tool, input_path, output_dir, tree, disk, cfg, cur, visit,
                   img, retries, valid_scale, scaled_width, scaled_height,
                   draws, i, j, tile_count, clock, saved>>

\* Lines 113-126: the walk reaches a directory and lists it as it is now; or
\* it has yielded a directory named like an image and process_image walks it.
PairWalk ==
    /\ tool = "pairings"
    /\ pc = "next"
    /\ pending # <<>>
    /\ Head(pending).kind \in {"list", "call"}
    /\ \E order \in Orders(Yielded(Head(pending).dir)) :
          pending' = order \o Tail(pending)
    /\ UNCHANGED <<tool, input_path, output_dir, tree, disk, dirs, cfg, pc,
                   cur, visit, img, retries, valid_scale, scaled_width,
                   scaled_height, draws, i, j, tile_count, clock, saved,
                   reports>>

\* Lines 66-80: open the next file and resize it. The kernel is the one given
\* or one drawn from SCALING_ALGORITHMS; Image.resize raises ValueError on a
\* size below 1.
PairScale ==
    /\ tool = "pairings"
    /\ pc = "next"
    /\ pending # <<>>
    /\ Head(pending).kind = "file"
    /\ LET file == OnDisk(Head(pending).file) IN
        /\ cur' = file
        /\ pending' = Tail(pending)
        /\ scaled_width' = PairScaledDim(file.width, cfg.scale)
        /\ scaled_height' = PairScaledDim(file.height, cfg.scale)
        /\ \E algo \in (IF cfg.scaling_algo = "" THEN SCALING_ALGORITHMS
                        ELSE {cfg.scaling_algo}) :
            IF PairScaledDim(file.width, cfg.scale) < 1
               \/ PairScaledDim(file.height, cfg.scale) < 1
            THEN /\ pc' = "crashed"
                 /\ img' = [width |-> file.width, height |-> file.height,
                            mode |-> file.mode]
            ELSE /\ pc' = "blur"
                 /\ img' = [width  |-> PairScaledDim(file.width, cfg.scale),
                            height |-> PairScaledDim(file.height, cfg.scale),
                            mode   |-> file.mode]
    /\ visit' = visit + 1
    /\ UNCHANGED <<tool, input_path, output_dir, tree, disk, dirs, cfg,
                   retries, valid_scale, draws, i, j, tile_count, clock,
                   saved, reports>>

\* Image.filter gives an image of the same size and mode.
Filtered(image, blur_type) ==
    [width |-> image.width, height |-> image.height, mode |-> image.mode]

\* Lines 83-90, 34-40: the optional blur, with the filter given or one drawn
\* from BLUR_ALGORITHMS.
PairBlur ==
    /\ tool = "pairings"
    /\ pc = "blur"
    /\ \E blur_type \in (IF cfg.blur_type = "" THEN BLUR_ALGORITHMS
                         ELSE {cfg.blur_type}) :
        img' = IF cfg.blur THEN Filtered(img, blur_type) ELSE img
    /\ pc' = "noise"
    /\ UNCHANGED <<tool, input_path, output_dir, tree, disk, dirs, cfg,
                   pending, cur, visit, retries, valid_scale, scaled_width,
                   scaled_height, draws, i, j, tile_count, clock, saved,
                   reports>>

\* Lines 93-94, 27-31: the optional noise. Image.effect_noise gives an "L"
\* image of the same size; Image.blend raises ValueError unless the modes match.
PairNoise ==
    /\ tool = "pairings"
    /\ pc = "noise"
    /\ pc' = IF cfg.noise /\ img.mode # "L" THEN "crashed" ELSE "save"
    /\ UNCHANGED <<tool, input_path, output_dir, tree, disk, dirs, cfg,
                   pending, cur, visit, img, retries, valid_scale,
                   scaled_width, scaled_height, draws, i, j, tile_count,
                   clock, saved, reports>>

\* Lines 97-110: encode and write <stem>.jpg or <stem>.png into output_dir.
\* random.randint raises ValueError on a quality range whose first bound
\* exceeds the second.
PairSave ==
    /\ tool = "pairings"
    /\ pc = "save"
    /\ IF cfg.save_as_jpeg
       THEN /\ img' = [img EXCEPT !.mode = "RGB"]
            /\ IF cfg.jpeg_quality_range[1] > cfg.jpeg_quality_range[2]
               THEN /\ pc' = "crashed"
                    /\ UNCHANGED <<saved, disk>>
               ELSE \E quality \in
                        cfg.jpeg_quality_range[1] .. cfg.jpeg_quality_range[2] :
                    /\ saved' = Append(saved,
                           [dir |-> output_dir, name |-> PairFilename(cur, TRUE),
                            width |-> img.width, height |-> img.height,
                            mode |-> "RGB", quality |-> quality,
                            kind |-> "pairing", src |-> cur, visit |-> visit])
                    /\ disk' = Write(disk,
                           Written(output_dir, PairFilename(cur, TRUE), img.width,
                                   img.height, "RGB"))
                    /\ pc' = "next"
       ELSE /\ img' = img
            /\ saved' = Append(saved,
                   [dir |-> output_dir, name |-> PairFilename(cur, FALSE),
                    width |-> img.width, height |-> img.height, mode |-> img.mode,
                    quality |-> 0, kind |-> "pairing", src |-> cur,
                    visit |-> visit])
            /\ disk' = Write(disk,
                   Written(output_dir, PairFilename(cur, FALSE), img.width,
                           img.height, img.mode))
            /\ pc' = "next"
    /\ UNCHANGED <<tool, input_path, output_dir, tree, dirs, cfg, pending,
                   cur, visit, retries, valid_scale, scaled_width,
                   scaled_height, draws, i, j, tile_count, clock, reports>>

\* The walk is over: process_image returns to main.
PairFinish ==
    /\ tool = "pairings"
    /\ pc = "next"
    /\ pending = <<>>
    /\ pc' = "done"
    /\ UNCHANGED <<tool, input_path, output_dir, tree, disk, dirs, cfg,
                   pending, cur, visit, img, retries, valid_scale,
                   scaled_width, scaled_height, draws, i, j, tile_count,
                   clock, saved, reports>>

\* ---------------------------------------------------------- initial states
Modes == {"L", "RGB", "RGBA"}

In == <<Comp("in", <<>>)>>
Out == <<Comp("out", <<>>)>>
Sub(name, suffix) == In \o <<Comp(name, suffix)>>

File(dir, stem, suffix, w, h, mode) ==
    [dir |-> dir, stem |-> <<stem>>, suffix |-> suffix, width |-> w,
     height |-> h, mode |-> mode]

FileArg(f) == [kind |-> "file", file |-> f, dir |-> NoDir]
DirArg(d) == [kind |-> "dir", file |-> NoFile, dir |-> d]

TileCfg(smin, smax, ow, oh, mr) ==
    [scale_min |-> smin, scale_max |-> smax, output_width |-> ow,
     output_height |-> oh, max_retries |-> mr]

\* The arguments argparse accepts, within the bounds: every scale range,
\* reversed ones included, with positive tile sizes; and tile sizes of which
\* one is zero or negative, with a fixed scale factor.
PositiveTileCfgs ==
    {TileCfg(smin, smax, ow, oh, mr) :
        smin \in 1 .. MaxScaleNum, smax \in 1 .. MaxScaleNum,
        ow \in 1 .. MaxOut, oh \in 1 .. MaxOut, mr \in 0 .. MaxRetries}

DegenerateTileCfgs ==
    {TileCfg(s, s, size[1], size[2], mr) :
        s \in 1 .. MaxScaleNum, mr \in 0 .. 1,
        size \in {z \in (-1 .. MaxOut) \X (-1 .. MaxOut) : z[1] < 1 \/ z[2] < 1}}

SmallTileCfgs == PositiveTileCfgs \cup DegenerateTileCfgs

\* One small image given as a file argument.
SingleFileRuns ==
    {[input |-> FileArg(File(In, "a", <<".", "p", "n", "g">>, w, h, "RGB")),
      tree  |-> {File(In, "a", <<".", "p", "n", "g">>, w, h, "RGB")},
      dirs  |-> {In},
      cfg   |-> c,
      out   |-> Out] :
        w \in 1 .. MaxDim, h \in 1 .. MaxDim, c \in SmallTileCfgs}

\* Suffixes in upper and mixed case.
CasedSuffixes ==
    {<<".", "P", "N", "G">>, <<".", "J", "P", "G">>, <<".", "J", "P", "E", "G">>,
     <<".", "P", "n", "g">>, <<".", "B", "M", "P">>, <<".", "T", "I", "F", "F">>}

\* A file argument with an upper-case or mixed-case suffix.
UpperCaseRuns ==
    {[input |-> FileArg(File(In, "a", sfx, 2, 2, "RGB")),
      tree  |-> {File(In, "a", sfx, 2, 2, "RGB")},
      dirs  |-> {In},
      cfg   |-> TileCfg(ScaleDen, ScaleDen, 1, 1, 1),
      out   |-> Out] :
        sfx \in CasedSuffixes}

\* The worked examples of the specification, as file arguments.
ScenarioRuns ==
    {[input |-> FileArg(File(In, "a", <<".", "p", "n", "g">>, 40, 40, "RGB")),
      tree  |-> {File(In, "a", <<".", "p", "n", "g">>, 40, 40, "RGB")},
      dirs  |-> {In},
      cfg   |-> TileCfg(2 * ScaleDen, 2 * ScaleDen, 100, 100, mr),
      out   |-> Out] :
        mr \in 1 .. MaxRetries}
    \cup
    {[input |-> FileArg(File(In, "a", <<".", "p", "n", "g">>, 1000, 1000, "RGB")),
      tree  |-> {File(In, "a", <<".", "p", "n", "g">>, 1000, 1000, "RGB")},
      dirs  |-> {In},
      cfg   |-> TileCfg(ScaleDen, ScaleDen, 300, 300, 1),
      out   |-> Out]}
    \cup
    {[input |-> FileArg(File(In, "a", <<".", "p", "n", "g">>, 350, 250, "RGB")),
      tree  |-> {File(In, "a", <<".", "p", "n", "g">>, 350, 250, "RGB")},
      dirs  |-> {In},
      cfg   |-> TileCfg(ScaleDen, ScaleDen, 300, 200, 1),
      out   |-> Out]}

\* An image with an alpha channel under a JPEG or a PNG suffix, cut into
\* grid tiles (width 1) or handed to the fallback (width -1).
AlphaRuns ==
    {[input |-> FileArg(File(In, "a", sfx, 2, 2, "RGBA")),
      tree  |-> {File(In, "a", sfx, 2, 2, "RGBA")},
      dirs  |-> {In},
      cfg   |-> TileCfg(ScaleDen, ScaleDen, ow, 1, 1),
      out   |-> Out] :
        sfx \in {<<".", "j", "p", "g">>, <<".", "J", "P", "E", "G">>,
                 <<".", "p", "n", "g">>},
        ow \in {-1, 1}}

\* A 7x5 image cut into 3x2 tiles at scale 1.0: two rows, two columns and a
\* remainder strip.
MediumRuns ==
    {[input |-> FileArg(File(In, "a", <<".", "p", "n", "g">>, 7, 5, "RGB")),
      tree  |-> {File(In, "a", <<".", "p", "n", "g">>, 7, 5, "RGB")},
      dirs  |-> {In},
      cfg   |-> TileCfg(ScaleDen, ScaleDen, 3, 2, 1),
      out   |-> Out]}

\* Paths that are no image file, or do not exist.
OtherRuns ==
    {[input |-> [kind |-> "missing", file |-> NoFile, dir |-> NoDir],
      tree  |-> {},
      dirs  |-> {},
      cfg   |-> TileCfg(ScaleDen, ScaleDen, 1, 1, 1),
      out   |-> Out],
     [input |-> FileArg(File(In, "a", <<".", "t", "x", "t">>, 0, 0, "")),
      tree  |-> {},
      dirs  |-> {In},
      cfg   |-> TileCfg(ScaleDen, ScaleDen, 1, 1, 1),
      out   |-> Out]}

\* Directory trees of two images: one in in/, in/x/ or the directory
\* in/x.png/, one in in/y/, possibly with the same stem.
Tree(f, g) == [files |-> {f, g}, dirs |-> {In, f.dir, g.dir}]

Trees(h) ==
    {Tree(File(Sub("x", <<>>), "a", <<".", "p", "n", "g">>, 2, h, "RGB"),
          File(Sub("y", <<>>), "b", <<".", "p", "n", "g">>, 2, h, "RGB")),
     Tree(File(Sub("x", <<>>), "a", <<".", "p", "n", "g">>, 2, h, "RGB"),
          File(Sub("y", <<>>), "a", <<".", "p", "n", "g">>, 2, h, "RGB")),
     Tree(File(Sub("x", <<".", "p", "n", "g">>), "a", <<".", "p", "n", "g">>, 2, h, "RGB"),
          File(Sub("y", <<>>), "b", <<".", "p", "n", "g">>, 2, h, "RGB")),
     Tree(File(In, "a", <<".", "P", "N", "G">>, 2, h, "RGB"),
          File(Sub("y", <<>>), "b", <<".", "j", "p", "g">>, 2, h, "RGB")),
     Tree(File(Sub("x", <<>>), "a", <<".", "T", "I", "F", "F">>, 2, h, "RGB"),
          File(Sub("y", <<>>), "b", <<".", "p", "n", "g">>, 2, h, "RGB")),
     Tree(File(Sub("x", <<".", "B", "M", "P">>), "a", <<".", "p", "n", "g">>, 2, h, "RGB"),
          File(Sub("y", <<>>), "b", <<".", "p", "n", "g">>, 2, h, "RGB"))}

\* output_dir: outside the input tree, a new directory inside it, or one of
\* its directories.
OutputDirs == {Out, Sub("z", <<>>), Sub("y", <<>>)}

\* Tiles of half the image width and of the full width.
DirRuns ==
    {[input |-> DirArg(In),
      tree  |-> t.files,
      dirs  |-> t.dirs,
      cfg   |-> TileCfg(ScaleDen, ScaleDen, ow, 1, 1),
      out   |-> o] :
        t \in Trees(1), ow \in {1, 2}, o \in OutputDirs}

\* A tree walked with a scale range of which only the upper end is feasible
\* and two draws per image: an image may be accepted and another one fail.
SearchDirRuns ==
    {[input |-> DirArg(In),
      tree  |-> t.files,
      dirs  |-> t.dirs,
      cfg   |-> TileCfg(1, ScaleDen, 2, 1, 2),
      out   |-> Out] :
        t \in {Tree(File(Sub("x", <<>>), "a", <<".", "p", "n", "g">>, 2, 1, "RGB"),
                    File(Sub("y", <<>>), "b", <<".", "p", "n", "g">>, 2, 1, "RGB"))}}

TilesRuns ==
    SingleFileRuns \cup UpperCaseRuns \cup AlphaRuns \cup ScenarioRuns
    \cup MediumRuns \cup OtherRuns \cup DirRuns \cup SearchDirRuns

Init ==
    /\ tool = "tiles"
    /\ \E run \in TilesRuns :
        /\ input_path = run.input
        /\ tree = run.tree
        /\ disk = run.tree
        /\ dirs = run.dirs
        /\ cfg = run.cfg
        /\ output_dir = run.out
    /\ pending = <<>>
    /\ pc = "dispatch"
    /\ cur = NoFile
    /\ visit = 0
    /\ img = NoImage
    /\ retries = 0
    /\ valid_scale = FALSE
    /\ scaled_width = 0
    /\ scaled_height = 0
    /\ draws = <<>>
    /\ i = 0
    /\ j = 0
    /\ tile_count = 0
    /\ clock = 0
    /\ saved = <<>>
    /\ reports = <<>>

Next ==
    \/ TilesDispatch
    \/ TilesWalk
    \/ TilesStart
    \/ TilesDraw
    \/ TilesSearchFail
    \/ TilesResize
    \/ TilesGridEmit
    \/ TilesFallbackEmit
    \/ TilesFinish

Spec == Init /\ [][Next]_vars

QualityRanges == {<<75, 76>>, <<76, 75>>}

PairCfg(scale, algo, blur, blur_type, noise, jpeg, range) ==
    [scale |-> scale, scaling_algo |-> algo, blur |-> blur,
     blur_type |-> blur_type, noise |-> noise, noise_intensity |-> 10,
     save_as_jpeg |-> jpeg, jpeg_quality_range |-> range]

SmallPairCfgs ==
    {PairCfg(scale, algo, blur, bt, noise, jpeg, range) :
        scale \in 1 .. MaxScaleNum, algo \in {"", "lanczos"}, blur \in BOOLEAN,
        bt \in {"gaussian"}, noise \in BOOLEAN, jpeg \in BOOLEAN,
        range \in QualityRanges}

\* One small image given as a file argument; output_dir may be its directory.
PairFileRuns ==
    {[input |-> FileArg(File(In, "a", sfx, w, h, m)),
      tree  |-> {File(In, "a", sfx, w, h, m)},
      dirs  |-> {In},
      cfg   |-> c,
      out   |-> o] :
        w \in 1 .. MaxDim, h \in 1 .. MaxDim,
        sfx \in {<<".", "p", "n", "g">>, <<".", "j", "p", "g">>} \cup CasedSuffixes,
        m \in Modes, c \in SmallPairCfgs, o \in {Out, In}}

PairDirRuns ==
    {[input |-> DirArg(In),
      tree  |-> t.files,
      dirs  |-> t.dirs,
      cfg   |-> PairCfg(scale, "", blur, "", FALSE, jpeg, <<75, 76>>),
      out   |-> o] :
        t \in Trees(2), scale \in {1, ScaleDen}, blur \in BOOLEAN,
        jpeg \in BOOLEAN, o \in OutputDirs}

PairOtherRuns ==
    {[input |-> r.input, tree |-> r.tree, dirs |-> r.dirs,
      cfg |-> PairCfg(ScaleDen, "", FALSE, "", FALSE, FALSE, <<75, 76>>), out |-> Out] :
        r \in OtherRuns}

PairRuns == PairFileRuns \cup PairDirRuns \cup PairOtherRuns

PairInit ==
    /\ tool = "pairings"
    /\ \E run \in PairRuns :
        /\ input_path = run.input
        /\ tree = run.tree
        /\ disk = run.tree
        /\ dirs = run.dirs
        /\ cfg = run.cfg
        /\ output_dir = run.out
    /\ pending = <<>>
    /\ pc = "dispatch"
    /\ cur = NoFile
    /\ visit = 0
    /\ img = NoImage
    /\ retries = 0
    /\ valid_scale = FALSE
    /\ scaled_width = 0
    /\ scaled_height = 0
    /\ draws = <<>>
    /\ i = 0
    /\ j = 0
    /\ tile_count = 0
    /\ clock = 0
    /\ saved = <<>>
    /\ reports = <<>>

PairNext ==
    \/ PairDispatch
    \/ PairWalk
    \/ PairScale
    \/ PairBlur
    \/ PairNoise
    \/ PairSave
    \/ PairFinish

PairSpec == PairInit /\ [][PairNext]_vars

\* ------------------------------------------------------------- properties
\* The save() calls made while the v-th opened file was processed, in order.
TilesOf(v) == SelectSeq(saved, LAMBDA s : s.visit = v)

\* The scale-search failures printed for the v-th opened file.
FailuresOn(v) ==
    SelectSeq(reports, LAMBDA r : r.kind = "no_valid_scale" /\ r.visit = v)

\* A TileConfig has positive output sizes.
PositiveCfg == cfg.output_width > 0 /\ cfg.output_height > 0

\* The current file has been dealt with and the run went on.
Processed == cur # NoFile /\ pc \in {"next", "done"}

Inside(s) ==
    /\ 0 <= s.box.left
    /\ 0 <= s.box.top
    /\ s.box.right <= s.width
    /\ s.box.lower <= s.height

\* C1: with positive output sizes, whenever a crop is about to be taken or has
\* been taken, the rescaled image is at least output_width x output_height
\* and the crop box (left, top, left+output_width, top+output_height) lies
\* inside it.
C1_CropInsideRescaled ==
    (tool = "tiles" /\ PositiveCfg) =>
        /\ pc \in {"grid", "fallback"} =>
              /\ img.width >= cfg.output_width
              /\ img.height >= cfg.output_height
        /\ \A k \in 1 .. Len(saved) :
              /\ saved[k].width >= cfg.output_width
              /\ saved[k].height >= cfg.output_height
              /\ saved[k].box.right = saved[k].box.left + cfg.output_width
              /\ saved[k].box.lower = saved[k].box.top + cfg.output_height
              /\ Inside(saved[k])

\* A tile away from the origin, cut from an image larger than the tile and
\* accepted on the second draw.
C1_Witness ==
    /\ tool = "tiles"
    /\ PositiveCfg
    /\ Len(draws) > 1
    /\ \E k \in 1 .. Len(saved) :
          /\ saved[k].visit = visit
          /\ saved[k].box.left > 0
          /\ saved[k].width > saved[k].box.right

\* Two boxes share a pixel.
Overlap(p, q) ==
    /\ p.left < q.right
    /\ q.left < p.right
    /\ p.top < q.lower
    /\ q.top < p.lower

\* C2: when at least one tile fits in each axis, the tiles of an image are
\* emitted in row-major order with indices 0, 1, ..., none is a fallback
\* crop, and once the image is done there are tiles_down * tiles_across of
\* them and every pixel of the (tiles_across * output_width) x
\* (tiles_down * output_height) rectangle at (0,0) lies in exactly one tile:
\* the tiles lie inside the rectangle, no two share a pixel, and their areas
\* add up to the area of the rectangle.
C2_GridPartition ==
    (/\ tool = "tiles"
     /\ cur # NoFile
     /\ valid_scale
     /\ pc \in {"grid", "next", "done"}
     /\ cfg.output_width > 0
     /\ cfg.output_height > 0
     /\ scaled_width \div cfg.output_width >= 1
     /\ scaled_height \div cfg.output_height >= 1) =>
        LET T == TilesOf(visit)
            across == scaled_width \div cfg.output_width
            down == scaled_height \div cfg.output_height
        IN  /\ Len(T) = tile_count
            /\ \A k \in 1 .. Len(T) :
                  /\ T[k].kind = "grid"
                  /\ T[k].name.parts[Len(T[k].name.parts)] = k - 1
                  /\ T[k].box.left = ((k - 1) % across) * cfg.output_width
                  /\ T[k].box.top = ((k - 1) \div across) * cfg.output_height
                  /\ T[k].box.right = T[k].box.left + cfg.output_width
                  /\ T[k].box.lower = T[k].box.top + cfg.output_height
            /\ pc = "grid" => Len(T) < down * across
            /\ pc \in {"next", "done"} =>
                  /\ Len(T) = down * across
                  /\ \A k \in 1 .. Len(T) :
                        /\ 0 <= T[k].box.left
                        /\ 0 <= T[k].box.top
                        /\ T[k].box.right <= across * cfg.output_width
                        /\ T[k].box.lower <= down * cfg.output_height
                  /\ \A a, b \in 1 .. Len(T) : a # b => ~Overlap(T[a].box, T[b].box)
                  /\ Len(T) * (cfg.output_width * cfg.output_height)
                        = (across * cfg.output_width) * (down * cfg.output_height)

\* A finished grid of at least two rows and two columns that leaves a
\* remainder strip, with tiles that are not square.
C2_Witness ==
    /\ tool = "tiles"
    /\ Processed
    /\ valid_scale
    /\ cfg.output_width > 0
    /\ cfg.output_height > 0
    /\ cfg.output_height # cfg.output_width
    /\ Len(TilesOf(visit)) >= 4
    /\ scaled_width \div cfg.output_width >= 2
    /\ scaled_height \div cfg.output_height >= 2
    /\ scaled_width % cfg.output_width > 0

\* Whether draw `num` gives the current file a size of at least the tile size.
DrawFits(num) ==
    /\ (cur.width * num) \div ScaleDen >= cfg.output_width
    /\ (cur.height * num) \div ScaleDen >= cfg.output_height

\* C3: the scale search makes at most max_retries draws and always has a
\* next step; every draw before the last is infeasible; it is left with
\* valid_scale exactly when the last draw is feasible, and the image is then
\* resized to that draw's dimensions. A search that has spent its draws
\* without a feasible one is reported, exactly once, as soon as it is left;
\* a reported search made max_retries draws, all infeasible, and no file is
\* written for that processing of the image.
C3_SearchBounded ==
    tool = "tiles" =>
        /\ Len(draws) = retries
        /\ retries <= cfg.max_retries
        /\ pc = "search" => ENABLED (TilesDraw \/ TilesSearchFail \/ TilesResize)
        /\ (pc = "search" /\ ~valid_scale /\ retries = cfg.max_retries) =>
              /\ ENABLED TilesSearchFail
              /\ ~ENABLED (TilesDraw \/ TilesResize)
        /\ \A k \in 1 .. Len(draws) - 1 : ~DrawFits(draws[k])
        /\ valid_scale <=> (draws # <<>> /\ DrawFits(draws[Len(draws)]))
        /\ pc \in {"grid", "fallback"} =>
              /\ valid_scale
              /\ img.width = (cur.width * draws[Len(draws)]) \div ScaleDen
              /\ img.height = (cur.height * draws[Len(draws)]) \div ScaleDen
        /\ (Processed /\ ~PreFilter(cur, cfg) /\ ~valid_scale) =>
              /\ Len(FailuresOn(visit)) = 1
              /\ FailuresOn(visit)[1].file = cur
              /\ TilesOf(visit) = <<>>
        /\ \A r \in 1 .. Len(reports) :
              reports[r].kind = "no_valid_scale" => TilesOf(reports[r].visit) = <<>>
        /\ \A v \in 1 .. visit : Len(FailuresOn(v)) <= 1
        /\ FailuresOn(visit) # <<>> =>
              /\ pc \in {"next", "done"}
              /\ ~valid_scale
              /\ retries = cfg.max_retries
              /\ \A k \in 1 .. Len(draws) : ~DrawFits(draws[k])

\* A walk in which one image was accepted and its tile written, and the
\* search of the next image has spent its two draws on infeasible factors,
\* although the range holds a feasible one, and has been reported.
C3_Witness ==
    /\ tool = "tiles"
    /\ Processed
    /\ visit = 2
    /\ cfg.max_retries >= 2
    /\ Len(draws) = cfg.max_retries
    /\ \A k \in 1 .. Len(draws) : ~DrawFits(draws[k])
    /\ DrawFits(cfg.scale_max)
    /\ Len(FailuresOn(2)) = 1
    /\ FailuresOn(1) = <<>>
    /\ TilesOf(1) # <<>>
    /\ TilesOf(2) = <<>>

\* Whether an opened file is smaller than the tile in some dimension.
Undersized(file) ==
    file.width < cfg.output_width \/ file.height < cfg.output_height

\* C4: an image whose original width < output_width or original height <
\* output_height yields no tile and no report, and no scale factor is drawn
\* for it, whatever scale_min, scale_max and max_retries are.
C4_PreFilter ==
    tool = "tiles" =>
        /\ \A k \in 1 .. Len(saved) : ~Undersized(saved[k].src)
        /\ \A r \in 1 .. Len(reports) :
              reports[r].kind = "no_valid_scale" => ~Undersized(reports[r].file)
        /\ (cur # NoFile /\ Undersized(cur)) =>
              /\ pc \in {"next", "done"}
              /\ draws = <<>>
              /\ retries = 0

\* An image too narrow only, rejected although max_retries > 0 and the
\* largest scale factor would have made it large enough.
C4_Witness ==
    /\ tool = "tiles"
    /\ Processed
    /\ cur.width < cfg.output_width
    /\ cur.height >= cfg.output_height
    /\ cfg.max_retries > 0
    /\ DrawFits(cfg.scale_max)

\* The 40x40 source with 100x100 tiles and scale_min = scale_max = 2.0.
Scenario40 ==
    /\ tool = "tiles"
    /\ cur # NoFile
    /\ cur.width = 40
    /\ cur.height = 40
    /\ cfg.output_width = 100
    /\ cfg.output_height = 100
    /\ cfg.scale_min = 2 * ScaleDen
    /\ cfg.scale_max = 2 * ScaleDen

\* C5 as stated: in the 40x40 scenario the scale search runs, all
\* max_retries draws are spent, the failure is reported and no tile is emitted.
C5_AsStated ==
    (Scenario40 /\ Processed) =>
        /\ retries = cfg.max_retries
        /\ \E r \in 1 .. Len(reports) :
              reports[r].kind = "no_valid_scale" /\ reports[r].file = cur
        /\ saved = <<>>

\* C5 amended: in the 40x40 scenario the pre-filter rejects the image: no
\* scale factor is drawn, nothing is reported and no tile is emitted.
C5_PreFiltered ==
    Scenario40 =>
        /\ pc \in {"next", "done"}
        /\ draws = <<>>
        /\ retries = 0
        /\ reports = <<>>
        /\ saved = <<>>

C5_Witness == Scenario40 /\ pc = "done" /\ cfg.max_retries > 1

\* C6 as stated: no two save() calls of one run of the tiling tool write the
\* same path.
C6_DistinctFilenames ==
    tool = "tiles" =>
        \A a, b \in 1 .. Len(saved) :
            a # b => ~(saved[a].dir = saved[b].dir /\ saved[a].name = saved[b].name)

\* C7 as stated: no save() call writes the path of a file of the input tree.
C7_InputsUntouched ==
    \A k \in 1 .. Len(saved) :
        \A f \in tree :
            ~(saved[k].dir = f.dir /\ saved[k].name = DiskName(f))

\* C8 as stated: the image is resized to round(w*s) x round(h*s) and is
\* written with these dimensions.
C8_AsStated ==
    tool = "pairings" =>
        /\ pc \in {"blur", "noise", "save"} =>
              /\ img.width = RoundHalfEven(cur.width * cfg.scale, ScaleDen)
              /\ img.height = RoundHalfEven(cur.height * cfg.scale, ScaleDen)
        /\ \A k \in 1 .. Len(saved) :
              /\ saved[k].width = RoundHalfEven(saved[k].src.width * cfg.scale, ScaleDen)
              /\ saved[k].height = RoundHalfEven(saved[k].src.height * cfg.scale, ScaleDen)

\* C8 amended: the resize is to int(w*s) x int(h*s), the products truncated
\* toward zero; blur and noise keep these dimensions, and every image written
\* has them.
C8_Truncated ==
    tool = "pairings" =>
        /\ cur # NoFile =>
              /\ scaled_width = (cur.width * cfg.scale) \div ScaleDen
              /\ scaled_height = (cur.height * cfg.scale) \div ScaleDen
        /\ pc \in {"blur", "noise", "save"} =>
              /\ img.width = (cur.width * cfg.scale) \div ScaleDen
              /\ img.height = (cur.height * cfg.scale) \div ScaleDen
        /\ \A k \in 1 .. Len(saved) :
              /\ saved[k].width = (saved[k].src.width * cfg.scale) \div ScaleDen
              /\ saved[k].height = (saved[k].src.height * cfg.scale) \div ScaleDen

\* An image written after blur and noise whose width is where truncation and
\* rounding differ.
C8_Witness ==
    /\ tool = "pairings"
    /\ cfg.blur
    /\ cfg.noise
    /\ \E k \in 1 .. Len(saved) :
          /\ saved[k].visit = visit
          /\ saved[k].width # RoundHalfEven(cur.width * cfg.scale, ScaleDen)

\* The image rescaled to 350x250 with 300x200 tiles.
Scenario350 ==
    /\ tool = "tiles"
    /\ cfg.output_width = 300
    /\ cfg.output_height = 200
    /\ valid_scale
    /\ scaled_width = 350
    /\ scaled_height = 250

\* C9 as stated: the 350x250 image is handled by the fallback: exactly one
\* crop, a fallback crop, with left and top in 0..50.
C9_AsStated ==
    (Scenario350 /\ Processed) =>
        LET T == TilesOf(visit) IN
            /\ Len(T) = 1
            /\ T[1].kind = "fallback"
            /\ T[1].box.left \in 0 .. 50
            /\ T[1].box.top \in 0 .. 50

\* C9 amended: the 350x250 image is handled by the grid: exactly one 300x200
\* crop, the grid tile at (0,0), inside the rescaled image; the fallback is
\* not entered.
C9_GridSingleTile ==
    Scenario350 =>
        /\ pc # "fallback"
        /\ Processed =>
              LET T == TilesOf(visit) IN
                  /\ Len(T) = 1
                  /\ T[1].kind = "grid"
                  /\ T[1].box = [left |-> 0, top |-> 0, right |-> 300, lower |-> 200]
                  /\ T[1].width = 350
                  /\ T[1].height = 250

C9_Witness == Scenario350 /\ Processed /\ saved # <<>>

\* C10: with positive output sizes an accepted scale gives tiles_across >= 1
\* and tiles_down >= 1, the fallback branch is never entered, every tile is
\* a grid tile and the first tile of an image is at (0,0).
C10_FallbackUnreachable ==
    (tool = "tiles" /\ PositiveCfg) =>
        /\ pc # "fallback"
        /\ valid_scale =>
              /\ scaled_width \div cfg.output_width >= 1
              /\ scaled_height \div cfg.output_height >= 1
        /\ \A k \in 1 .. Len(saved) :
              /\ saved[k].kind = "grid"
              /\ saved[k].name.parts[Len(saved[k].name.parts)] = 0 =>
                    saved[k].box.left = 0 /\ saved[k].box.top = 0
        /\ (Processed /\ valid_scale) => TilesOf(visit) # <<>>

\* An accepted image with room for exactly one tile in each axis, reached
\* after an infeasible draw.
C10_Witness ==
    /\ tool = "tiles"
    /\ PositiveCfg
    /\ Processed
    /\ valid_scale
    /\ Len(draws) > 1
    /\ scaled_width < 2 * cfg.output_width
    /\ scaled_height < 2 * cfg.output_height
    /\ scaled_width > cfg.output_width
    /\ Len(TilesOf(visit)) = 1

====
